---------------------------- MODULE Spec2Model ----------------------------
(***************************************************************************)
(* A model of the streaming archive parser and of the extraction to disk   *)
(* of src/index.ts.                                                        *)
(*                                                                         *)
(* Text is a sequence of UTF-16 code units (numbers), as a JavaScript      *)
(* string is; a Buffer is a sequence of bytes (numbers 0..255).            *)
(* Character codes used below:                                             *)
(*   10 LF  13 CR  9 TAB  32 space  42 '*'  37 '%'  47 '/'  46 '.'         *)
(*   65533 U+FFFD, the replacement character of the UTF-8 decoder.         *)
(***************************************************************************)
EXTENDS Integers, Sequences, FiniteSets, TLC

VARIABLES
    input,           \* the decoded text the read stream delivers, in full
    pos,             \* number of code units of input delivered so far
    source,          \* read stream: "open", "ended" (EOF, flush ran), "failed"
    buffer,          \* sectionExtractor: carry-over buffer
    sectionCount,    \* sectionExtractor: sections pushed by transform
    currentSection,  \* sectionExtractor: in-section accumulation
    inSection,       \* sectionExtractor: past the first delimiter
    emitted,         \* every section sectionExtractor pushed, in push order
    taken,           \* how many of emitted fileProcessor has taken
    inflight,        \* fileProcessor: the call awaiting the image codec
    processed,       \* every record fileProcessor pushed, in push order
    files,           \* fileCollector: the array parseCompoundFile returns
    outcome,         \* what parseCompoundFile settled with
    records,         \* extractFilesToDisk: its argument files
    outputDir,       \* extractFilesToDisk: its argument outputDir
    disk,            \* the file system: path -> directory or file
    phase,           \* extractFilesToDisk: "validate", "extract", "done", "failed"
    position,        \* extractFilesToDisk: records the for loop has finished
    report,          \* the console line of each record the loop finished
    run,             \* which call of extractFilesToDisk this is (1 or 2)
    firstRun,        \* <<>>, or what the first call left: its disk and phase
    header           \* a header block, its mapping and the mapping's text

vars == <<input, pos, source, buffer, sectionCount, currentSection, inSection,
          emitted, taken, inflight, processed, files, outcome,
          records, outputDir, disk, phase, position, report, run, firstRun,
          header>>

scannerVars == <<buffer, sectionCount, currentSection, inSection, emitted>>
pipeVars == <<taken, inflight, processed, files, outcome>>
parseVars == <<input, pos, source, scannerVars, pipeVars>>
extractVars == <<records, outputDir, disk, phase, position, report, run, firstRun>>

-----------------------------------------------------------------------------
(* Bounds of the model *)

\* scanner inputs are concatenations of at most this many pieces
MaxPieces == 4
\* a chunk holds at most this many code units, or all that is left
MaxChunk == 9
\* archive files hold at most this many sections
MaxSections == 2
\* code units per chunk of the read stream (its highWaterMark, scaled down):
\* shorter than most sections and longer than the delimiter token, so that
\* sections span chunks and a delimiter falls inside a chunk in some files
\* and across two chunks in others
HighWaterMark == 22

-----------------------------------------------------------------------------
(* Strings of the program *)

SECTION_DELIMITER == <<42, 42, 37, 37, 68, 79, 67, 85>>      \* '**%%DOCU'
SIGNATURE_MARKER == <<95, 83, 73, 71, 47, 68, 46, 67, 46>>   \* '_SIG/D.C.'

-----------------------------------------------------------------------------
(* JavaScript string primitives *)

Min(a, b) == IF a < b THEN a ELSE b

\* s.startsWith(pat, i): pat occurs in s at 0-based index i
OccursAt(s, pat, i) ==
    /\ i >= 0
    /\ i + Len(pat) <= Len(s)
    /\ \A k \in 1..Len(pat) : s[i + k] = pat[k]

\* s.indexOf(pat): least 0-based index of an occurrence, -1 when none
IndexOf(s, pat) ==
    LET hits == {i \in 0..(Len(s) - Len(pat)) : OccursAt(s, pat, i)}
    IN  IF hits = {} THEN -1
        ELSE CHOOSE i \in hits : \A j \in hits : i <= j

\* s.includes(pat)
Includes(s, pat) == IndexOf(s, pat) # -1

\* s.substring(a, b) for 0 <= a <= b <= s.length
Substring(s, a, b) == SubSeq(s, a + 1, b)

\* s.substring(a)
SubstringFrom(s, a) == SubSeq(s, a + 1, Len(s))

-----------------------------------------------------------------------------
(* sectionExtractor *)

Section(n, c) == [sectionNumber |-> n, content |-> c]

\* ScanLoop with the first delimiter closing a section too (the preamble)
RECURSIVE ScanLoopEmitsPreamble(_)
ScanLoopEmitsPreamble(st) ==
    LET delimiterIndex == IndexOf(st.buffer, SECTION_DELIMITER)
    IN  IF delimiterIndex = -1 THEN st
        ELSE ScanLoopEmitsPreamble([st EXCEPT
                 !.out = Append(@, Section(st.sectionCount,
                            st.currentSection
                              \o Substring(st.buffer, 0, delimiterIndex))),
                 !.sectionCount = @ + 1,
                 !.currentSection = <<>>,
                 !.inSection = TRUE,
                 !.buffer = SubstringFrom(st.buffer,
                                delimiterIndex + Len(SECTION_DELIMITER))])

\* the while loop of transform: st.out collects what this.push received
RECURSIVE ScanLoop(_)
ScanLoop(st) ==
    LET delimiterIndex == IndexOf(st.buffer, SECTION_DELIMITER)
    IN  IF delimiterIndex = -1 THEN st
        ELSE LET rest == SubstringFrom(st.buffer,
                                       delimiterIndex + Len(SECTION_DELIMITER))
             IN  IF st.inSection
                 THEN ScanLoop([st EXCEPT
                        !.out = Append(@, Section(st.sectionCount,
                                   st.currentSection
                                     \o Substring(st.buffer, 0, delimiterIndex))),
                        !.sectionCount = @ + 1,
                        !.currentSection = <<>>,
                        !.buffer = rest])
                 ELSE ScanLoop([st EXCEPT !.inSection = TRUE, !.buffer = rest])

\* Transform with the remainder dropped instead of moved to the section
TransformDropsRemainder(st, chunk) ==
    LET scanned == ScanLoop([st EXCEPT !.buffer = @ \o chunk])
    IN  IF scanned.inSection
        THEN [scanned EXCEPT !.buffer = <<>>]
        ELSE scanned

\* transform(chunk): append, scan, then move the remainder to the section
Transform(st, chunk) ==
    LET scanned == ScanLoop([st EXCEPT !.buffer = @ \o chunk])
    IN  IF scanned.inSection
        THEN [scanned EXCEPT !.currentSection = @ \o scanned.buffer,
                             !.buffer = <<>>]
        ELSE scanned

\* Flush without the test that something is pending
FlushIgnoresEmpty(st) ==
    IF st.inSection
    THEN [st EXCEPT !.out = Append(@, Section(st.sectionCount, st.currentSection))]
    ELSE st

\* flush(): the last section, when the input does not end with a delimiter
Flush(st) ==
    IF st.inSection /\ st.currentSection # <<>>
    THEN [st EXCEPT !.out = Append(@, Section(st.sectionCount, st.currentSection))]
    ELSE st

\* the scanner as constructed (lines 276-279), nothing pushed yet
NewScanner ==
    [buffer |-> <<>>, sectionCount |-> 0, currentSection |-> <<>>,
     inSection |-> FALSE, out |-> <<>>]

Scanner ==
    [buffer |-> buffer, sectionCount |-> sectionCount,
     currentSection |-> currentSection, inSection |-> inSection,
     out |-> emitted]

SetScanner(st) ==
    /\ buffer' = st.buffer
    /\ sectionCount' = st.sectionCount
    /\ currentSection' = st.currentSection
    /\ inSection' = st.inSection
    /\ emitted' = st.out

-----------------------------------------------------------------------------
(* The read stream's decoding, and Buffer.from(text, 'binary') *)

IsContinuation(b) == b >= 128 /\ b <= 191

\* the lead byte of a two-byte sequence
IsLead(b) == b >= 194 /\ b <= 223

\* byte i is the second byte of a two-byte sequence: a lead byte is never a
\* continuation byte, so the byte before it starts a sequence whenever it is
\* a lead byte
IsSecond(bytes, i) ==
    i > 1 /\ IsLead(bytes[i - 1]) /\ IsContinuation(bytes[i])

\* the code unit decoded from the sequence that starts at byte i
UnitAt(bytes, i) ==
    IF bytes[i] < 128 THEN bytes[i]
    ELSE IF IsLead(bytes[i]) /\ i < Len(bytes) /\ IsContinuation(bytes[i + 1])
    THEN (bytes[i] - 192) * 64 + (bytes[i + 1] - 128)
    ELSE 65533

\* createReadStream(filePath, { encoding: 'utf-8' }): the file's bytes decoded
\* as UTF-8, an invalid byte giving U+FFFD. The stream's decoder carries an
\* incomplete sequence over to the next chunk, so the text delivered is that of
\* the whole file whatever the chunking. Defined for files without the lead
\* bytes 224..244 of three- and four-byte sequences; no file below holds one.
Utf8Decode(bytes) ==
    LET seconds == {i \in 1..Len(bytes) : IsSecond(bytes, i)}
        before(i) == Cardinality({j \in seconds : j < i})
        start(k) == CHOOSE i \in (1..Len(bytes)) \ seconds : i - before(i) = k
    IN  [k \in 1..(Len(bytes) - Cardinality(seconds)) |-> UnitAt(bytes, start(k))]

\* Buffer.from(text, 'binary'): the low byte of every code unit
BufferFromBinary(text) == [i \in 1..Len(text) |-> text[i] % 256]

-----------------------------------------------------------------------------
(* parseMetadata *)

\* the characters String.prototype.trim removes
IsWhitespace(c) ==
    \/ c \in {9, 10, 11, 12, 13, 32, 160, 5760, 8232, 8233, 8239, 8287, 12288, 65279}
    \/ (c >= 8192 /\ c <= 8202)

RECURSIVE TrimStart(_)
TrimStart(s) ==
    IF s # <<>> /\ IsWhitespace(Head(s)) THEN TrimStart(Tail(s)) ELSE s

RECURSIVE TrimEnd(_)
TrimEnd(s) ==
    IF s # <<>> /\ IsWhitespace(s[Len(s)])
    THEN TrimEnd(SubSeq(s, 1, Len(s) - 1)) ELSE s

\* s.trim()
Trim(s) == TrimEnd(TrimStart(s))

\* s.split(sep) for a one-character separator: never empty
RECURSIVE Split(_, _)
Split(s, sep) ==
    LET i == IndexOf(s, <<sep>>)
    IN  IF i = -1 THEN <<s>>
        ELSE <<Substring(s, 0, i)>> \o Split(SubstringFrom(s, i + 1), sep)

\* metadata[key] = value
SetKey(metadata, key, value) ==
    [k \in (DOMAIN metadata) \cup {key} |->
        IF k = key THEN value ELSE metadata[k]]

\* ParseLine with the value taken one character too far to the right
ParseLineOffByOne(metadata, line) ==
    LET slash == IndexOf(line, <<47>>)
    IN  IF slash = -1 THEN metadata
        ELSE SetKey(metadata, Trim(Substring(line, 0, slash)),
                    Trim(SubstringFrom(line, Min(slash + 2, Len(line)))))

\* the body of the for loop: a line with '/' sets the text before the first
\* '/' (trimmed) to the text after it (trimmed); valueParts.join('/') is the
\* line after its first '/'
ParseLine(metadata, line) ==
    LET slash == IndexOf(line, <<47>>)
    IN  IF slash = -1 THEN metadata
        ELSE SetKey(metadata, Trim(Substring(line, 0, slash)),
                    Trim(SubstringFrom(line, slash + 1)))

RECURSIVE ParseLines(_, _)
ParseLines(metadata, lines) ==
    IF lines = <<>> THEN metadata
    ELSE ParseLines(ParseLine(metadata, Head(lines)), Tail(lines))

\* const metadata = {}
EmptyMetadata == [k \in {} |-> <<>>]

parseMetadata(block) == ParseLines(EmptyMetadata, Split(block, 10))

\* metadata.KEY || fallback: a missing key and an empty value give fallback
OrElse(metadata, key, fallback) ==
    IF key \in DOMAIN metadata /\ metadata[key] # <<>>
    THEN metadata[key] ELSE fallback

\* metadata.KEY?.includes(pat): false for a missing key
KeyIncludes(metadata, key, pat) ==
    key \in DOMAIN metadata /\ Includes(metadata[key], pat)

FILENAME == <<70, 73, 76, 69, 78, 65, 77, 69>>
EXT == <<69, 88, 84>>
TYPE == <<84, 89, 80, 69>>
DOCTYPE == <<68, 79, 67, 84, 89, 80, 69>>
SHA1 == <<83, 72, 65, 49>>
GUID == <<71, 85, 73, 68>>
ENV_GUID == <<69, 78, 86, 95, 71, 85, 73, 68>>
IMAGE == <<73, 77, 65, 71, 69>>
PLAINTEXT == <<80, 76, 65, 73, 78, 84, 69, 88, 84>>
UNKNOWN == <<117, 110, 107, 110, 111, 119, 110>>             \* 'unknown'
DOT_JPG == <<46, 106, 112, 103>>                             \* '.jpg'
DOT_WEBP == <<46, 119, 101, 98, 112>>                        \* '.webp'

-----------------------------------------------------------------------------
(* processSectionToFile *)

\* the characters '.' of a regular expression without the s flag leaves out
IsLineTerminator(c) == c \in {10, 13, 8232, 8233}

EndsWith(s, pat) == OccursAt(s, pat, Len(s) - Len(pat))

\* s.replace(/\*\*%%.*$/, ''): the text from the leftmost '**%%' that no line
\* terminator follows is removed
StripClosingToken(s) ==
    LET hits == {i \in 0..(Len(s) - 4) :
                    /\ OccursAt(s, <<42, 42, 37, 37>>, i)
                    /\ \A k \in (i + 5)..Len(s) : ~IsLineTerminator(s[k])}
    IN  IF hits = {} THEN s
        ELSE Substring(s, 0, CHOOSE i \in hits : \A j \in hits : i <= j)

\* s.replace(/\*\*$/, '')
StripTrailingStars(s) ==
    IF EndsWith(s, <<42, 42>>) THEN Substring(s, 0, Len(s) - 2) ELSE s

\* s.replace(pat, by) for a string pat: the first occurrence only
ReplaceFirst(s, pat, by) ==
    LET i == IndexOf(s, pat)
    IN  IF i = -1 THEN s
        ELSE Substring(s, 0, i) \o by \o SubstringFrom(s, i + Len(pat))

\* What the image codec (sharp) can answer for a buffer: a detected format
\* with the re-encoded image, or a failure of metadata() or toBuffer(). The
\* codec is external: every answer is possible for every buffer.
CodecAnswers ==
    { [format |-> "webp",
       data |-> <<82, 73, 70, 70, 4, 0, 0, 0, 87, 69, 66, 80>>],
      [format |-> "jpeg", data |-> <<255, 216, 255, 217>>],
      [format |-> "png", data |-> <<137, 80, 78, 71>>],
      [format |-> "failed", data |-> <<>>] }

\* a section that is not an image never reaches the codec
NoCodec == [format |-> "none", data |-> <<>>]

\* SignatureFallback with the JPEG marker looked for first
SignatureFallbackJpegFirst(content) ==
    LET riffPos == IndexOf(content, <<82, 73, 70, 70>>)
        jpegPos == IndexOf(content, <<255, 216>>)
    IN  IF jpegPos # -1 THEN SubstringFrom(content, jpegPos)
        ELSE IF riffPos # -1 THEN SubstringFrom(content, riffPos)
        ELSE content

\* the catch block: from the RIFF magic if there is one, else from the JPEG
\* start-of-image marker if there is one, else unchanged
SignatureFallback(content) ==
    LET riffPos == IndexOf(content, <<82, 73, 70, 70>>)
        jpegPos == IndexOf(content, <<255, 216>>)
    IN  IF riffPos # -1 THEN SubstringFrom(content, riffPos)
        ELSE IF jpegPos # -1 THEN SubstringFrom(content, jpegPos)
        ELSE content

IsImage(metadata) ==
    KeyIncludes(metadata, TYPE, IMAGE) \/ KeyIncludes(metadata, DOCTYPE, IMAGE)

\* the section's metadata and its content after the trailing markers are removed
SectionMetadata(sectionContent) ==
    parseMetadata(Substring(sectionContent, 0,
                            IndexOf(sectionContent, SIGNATURE_MARKER)))

SectionPayload(sectionContent) ==
    BufferFromBinary(StripTrailingStars(StripClosingToken(
        SubstringFrom(sectionContent,
            IndexOf(sectionContent, SIGNATURE_MARKER) + Len(SIGNATURE_MARKER)))))

\* the section makes processSectionToFile wait for the codec
AwaitsCodec(sectionContent) ==
    /\ Includes(sectionContent, SIGNATURE_MARKER)
    /\ IsImage(SectionMetadata(sectionContent))

\* countLines: the line breaks of the text, one more when the text does not
\* end with one
countLines(text) ==
    LET lineCount == Cardinality({i \in 1..Len(text) : text[i] = 10})
    IN  IF Len(text) > 0 /\ text[Len(text)] # 10 THEN lineCount + 1
        ELSE lineCount

\* EmbeddedFile without the 'unknown' fallback of the filename
EmbeddedFileNoFallback(metadata, processedContent) ==
    [filename |-> IF FILENAME \in DOMAIN metadata THEN metadata[FILENAME] ELSE <<>>,
     extension |-> OrElse(metadata, EXT, <<>>),
     type |-> OrElse(metadata, TYPE, <<>>),
     doctype |-> OrElse(metadata, DOCTYPE, <<>>),
     sha1 |-> OrElse(metadata, SHA1, <<>>),
     guid |-> OrElse(metadata, GUID, <<>>),
     envGuid |-> OrElse(metadata, ENV_GUID, <<>>),
     content |-> processedContent,
     size |-> Len(processedContent),
     startLine |-> 0,
     endLine |-> 0]

\* EmbeddedFile with an end line counted on the content, as the in-memory
\* parser counts it on the section
EmbeddedFileCountsLines(metadata, processedContent) ==
    [filename |-> OrElse(metadata, FILENAME, UNKNOWN),
     extension |-> OrElse(metadata, EXT, <<>>),
     type |-> OrElse(metadata, TYPE, <<>>),
     doctype |-> OrElse(metadata, DOCTYPE, <<>>),
     sha1 |-> OrElse(metadata, SHA1, <<>>),
     guid |-> OrElse(metadata, GUID, <<>>),
     envGuid |-> OrElse(metadata, ENV_GUID, <<>>),
     content |-> processedContent,
     size |-> Len(processedContent),
     startLine |-> 0,
     endLine |-> countLines(processedContent)]

\* the object literal processSectionToFile returns
EmbeddedFile(metadata, processedContent) ==
    [filename |-> OrElse(metadata, FILENAME, UNKNOWN),
     extension |-> OrElse(metadata, EXT, <<>>),
     type |-> OrElse(metadata, TYPE, <<>>),
     doctype |-> OrElse(metadata, DOCTYPE, <<>>),
     sha1 |-> OrElse(metadata, SHA1, <<>>),
     guid |-> OrElse(metadata, GUID, <<>>),
     envGuid |-> OrElse(metadata, ENV_GUID, <<>>),
     content |-> processedContent,
     size |-> Len(processedContent),
     startLine |-> 0,
     endLine |-> 0]

\* processSectionToFile without the test for the marker, as the in-memory
\* parser: sigIndex is -1, the metadata block is empty and the content starts
\* at index 8
processSectionUnchecked(sectionContent, sectionNumber, codec) ==
    IF IndexOf(sectionContent, SIGNATURE_MARKER) = -1
    THEN <<EmbeddedFile(EmptyMetadata,
              BufferFromBinary(StripTrailingStars(StripClosingToken(
                  SubstringFrom(sectionContent,
                      Min(Len(sectionContent), Len(SIGNATURE_MARKER) - 1))))))>>
    ELSE LET metadata == SectionMetadata(sectionContent)
             raw == SectionPayload(sectionContent)
         IN  IF ~IsImage(metadata) THEN <<EmbeddedFile(metadata, raw)>>
             ELSE IF codec.format = "failed"
             THEN <<EmbeddedFile(metadata, SignatureFallback(raw))>>
             ELSE <<EmbeddedFile(metadata, codec.data)>>

\* processSectionToFile: <<>> for null, else <<record>>; codec is the codec's
\* answer, read only for an image section
processSectionToFile(sectionContent, sectionNumber, codec) ==
    IF IndexOf(sectionContent, SIGNATURE_MARKER) = -1 THEN <<>>
    ELSE LET metadata == SectionMetadata(sectionContent)
             raw == SectionPayload(sectionContent)
         IN  IF ~IsImage(metadata) THEN <<EmbeddedFile(metadata, raw)>>
             ELSE IF codec.format = "failed"
             THEN <<EmbeddedFile(metadata, SignatureFallback(raw))>>
             ELSE IF codec.format = "webp" /\ FILENAME \in DOMAIN metadata
                     /\ EndsWith(metadata[FILENAME], DOT_JPG)
             THEN <<EmbeddedFile(
                      SetKey(metadata, FILENAME,
                             ReplaceFirst(metadata[FILENAME], DOT_JPG, DOT_WEBP)),
                      codec.data)>>
             ELSE <<EmbeddedFile(metadata, codec.data)>>

-----------------------------------------------------------------------------
(* extractFilesToDisk: the name of the file written for a record *)

\* the characters of the class [<>:"/\|?*]
IsIllegal(c) == c \in {60, 62, 58, 34, 47, 92, 124, 63, 42}

\* s.replace(/[<>:"/\\|?*]/g, '_')
ReplaceIllegal(s) == [i \in 1..Len(s) |-> IF IsIllegal(s[i]) THEN 95 ELSE s[i]]

\* s.replace(/\.\./g, '_'): left to right, matches do not overlap
RECURSIVE ReplaceDotDot(_)
ReplaceDotDot(s) ==
    IF Len(s) < 2 THEN s
    ELSE IF s[1] = 46 /\ s[2] = 46
         THEN <<95>> \o ReplaceDotDot(SubSeq(s, 3, Len(s)))
         ELSE <<s[1]>> \o ReplaceDotDot(Tail(s))

\* SanitizedFilename without the replacement of '..'
SanitizedFilenameKeepsDots(file) ==
    IF file.filename # <<>>
    THEN ReplaceIllegal(file.filename)
    ELSE <<117, 110, 107, 110, 111, 119, 110, 95>>
            \o SubSeq(file.guid, 1, Min(8, Len(file.guid)))
            \o file.extension

\* sanitizedFilename: the sanitized filename, or for an empty filename
\* 'unknown_' + guid.slice(0, 8) + extension
SanitizedFilename(file) ==
    IF file.filename # <<>>
    THEN ReplaceDotDot(ReplaceIllegal(file.filename))
    ELSE <<117, 110, 107, 110, 111, 119, 110, 95>>
            \o SubSeq(file.guid, 1, Min(8, Len(file.guid)))
            \o file.extension

-----------------------------------------------------------------------------
(* extractFilesToDisk: paths (POSIX) *)

\* parts.join(sep)
RECURSIVE JoinWith(_, _)
JoinWith(parts, sep) ==
    IF parts = <<>> THEN <<>>
    ELSE IF Len(parts) = 1 THEN Head(parts)
    ELSE Head(parts) \o <<sep>> \o JoinWith(Tail(parts), sep)

\* the components of an absolute path after '.', '..' and empty components
\* are resolved; '..' at the root stays at the root
RECURSIVE Resolved(_, _)
Resolved(done, rest) ==
    IF rest = <<>> THEN done
    ELSE IF Head(rest) = <<>> \/ Head(rest) = <<46>>
         THEN Resolved(done, Tail(rest))
    ELSE IF Head(rest) = <<46, 46>>
         THEN Resolved(IF done = <<>> THEN <<>>
                       ELSE SubSeq(done, 1, Len(done) - 1), Tail(rest))
    ELSE Resolved(Append(done, Head(rest)), Tail(rest))

\* the components of an absolute path
Components(p) == Resolved(<<>>, Split(p, 47))

\* the absolute path of a list of components
PathOf(parts) == <<47>> \o JoinWith(parts, 47)

\* path.normalize of an absolute path: a trailing separator is kept
Normalize(p) ==
    LET parts == Components(p)
    IN  IF parts # <<>> /\ p[Len(p)] = 47 THEN PathOf(parts) \o <<47>>
        ELSE PathOf(parts)

\* path.resolve(outputDir) for an absolute outputDir: no trailing separator
Resolve(p) == PathOf(Components(p))

\* path.join(dir, name): an empty name is left out
Join(dir, name) ==
    IF name = <<>> THEN Normalize(dir) ELSE Normalize(dir \o <<47>> \o name)

\* s.startsWith(prefix)
StartsWith(s, prefix) == OccursAt(s, prefix, 0)

\* path names the directory dir or something below it
IsWithin(path, dir) ==
    LET p == Components(path)
        d == Components(dir)
    IN  Len(d) <= Len(p) /\ SubSeq(p, 1, Len(d)) = d

\* path names something below the directory dir, not dir itself
IsStrictlyInside(path, dir) ==
    IsWithin(path, dir) /\ Len(Components(dir)) < Len(Components(path))

-----------------------------------------------------------------------------
(* extractFilesToDisk: the file system *)

\* A file system maps the absolute path of each entry to the entry. An entry
\* is a directory, a file or a symbolic link that loops; its mode is "rw",
\* "ro" (no write permission) or "none" (no permission at all).
Directory(mode) == [kind |-> "dir", mode |-> mode, content |-> <<>>]
RegularFile(mode, content) == [kind |-> "file", mode |-> mode, content |-> content]
LoopingLink == [kind |-> "loop", mode |-> "rw", content |-> <<>>]

\* the paths of the ancestors of the path of parts and of the path itself,
\* from the root down
Lineage(parts) == [n \in 1..(Len(parts) + 1) |-> PathOf(SubSeq(parts, 1, n - 1))]

\* the error code of walking down to the path, "" when the walk arrives: a
\* component that is not there is ENOENT, a file on the way ENOTDIR, a
\* looping link ELOOP, a directory that cannot be searched EACCES
WalkError(fs, p) ==
    LET line == Lineage(Components(p))
        bad(n) == \/ line[n] \notin DOMAIN fs
                  \/ fs[line[n]].kind = "loop"
                  \/ n < Len(line) /\ fs[line[n]].kind # "dir"
                  \/ n < Len(line) /\ fs[line[n]].mode = "none"
        stops == {n \in 1..Len(line) : bad(n)}
        first == CHOOSE n \in stops : \A m \in stops : n <= m
    IN  IF stops = {} THEN ""
        ELSE IF line[first] \notin DOMAIN fs THEN "ENOENT"
        ELSE IF fs[line[first]].kind = "loop" THEN "ELOOP"
        ELSE IF fs[line[first]].kind # "dir" THEN "ENOTDIR"
        ELSE "EACCES"

\* fs.stat(p): the error code, or "dir" or "file"
Stat(fs, p) ==
    IF WalkError(fs, p) # "" THEN WalkError(fs, p) ELSE fs[PathOf(Components(p))].kind

\* fs.access(p, W_OK) of an entry stat found: "" or the error code
AccessWrite(fs, p) ==
    IF fs[PathOf(Components(p))].mode = "rw" THEN "" ELSE "EACCES"

\* fs.mkdir(p, {recursive: true}) after stat answered ENOENT: every missing
\* directory down to p is created when the deepest directory that exists
\* can be written; <<>> when it fails, else <<the new file system>>
Mkdir(fs, p) ==
    LET line == Lineage(Components(p))
        there == {n \in 1..Len(line) : line[n] \in DOMAIN fs}
        deepest == CHOOSE n \in there : \A m \in there : m <= n
        made == {line[n] : n \in (deepest + 1)..Len(line)}
    IN  IF there = {} \/ fs[line[deepest]].kind # "dir"
           \/ fs[line[deepest]].mode # "rw"
        THEN <<>>
        ELSE << [q \in (DOMAIN fs) \cup made |->
                   IF q \in made THEN Directory("rw") ELSE fs[q]] >>

\* the directory a path lies in
Dirname(p) ==
    LET parts == Components(p)
    IN  PathOf(SubSeq(parts, 1, Len(parts) - 1))

\* WriteFile that appends to a file that is there (flag 'a' for 'w')
WriteFileAppends(fs, p, data) ==
    LET q == PathOf(Components(p))
        written == [r \in (DOMAIN fs) \cup {q} |->
                       IF r # q THEN fs[r]
                       ELSE IF q \in DOMAIN fs
                       THEN RegularFile("rw", fs[q].content \o data)
                       ELSE RegularFile("rw", data)]
    IN  IF p[Len(p)] = 47 \/ Components(p) = <<>> THEN <<>>
        ELSE IF WalkError(fs, q) = ""
        THEN IF fs[q].kind = "file" /\ fs[q].mode = "rw"
             THEN <<written>> ELSE <<>>
        ELSE IF WalkError(fs, q) = "ENOENT" /\ WalkError(fs, Dirname(q)) = ""
                /\ fs[Dirname(q)].kind = "dir" /\ fs[Dirname(q)].mode = "rw"
        THEN <<written>>
        ELSE <<>>

\* fs.writeFile(p, data): <<>> when it fails, else <<the new file system>>.
\* It fails for a path that ends with a separator or names a directory, for
\* a file without write permission, and for a new file when its directory is
\* not there, cannot be searched or cannot be written.
WriteFile(fs, p, data) ==
    LET q == PathOf(Components(p))
        written == [r \in (DOMAIN fs) \cup {q} |->
                       IF r = q THEN RegularFile("rw", data) ELSE fs[r]]
    IN  IF p[Len(p)] = 47 \/ Components(p) = <<>> THEN <<>>
        ELSE IF WalkError(fs, q) = ""
        THEN IF fs[q].kind = "file" /\ fs[q].mode = "rw"
             THEN <<written>> ELSE <<>>
        ELSE IF WalkError(fs, q) = "ENOENT" /\ WalkError(fs, Dirname(q)) = ""
                /\ fs[Dirname(q)].kind = "dir" /\ fs[Dirname(q)].mode = "rw"
        THEN <<written>>
        ELSE <<>>

-----------------------------------------------------------------------------
(* extractFilesToDisk: the content written for a record *)

\* the bytes fs.writeFile(path, text, 'utf-8') writes for a text
RECURSIVE Utf8Encode(_)
Utf8Encode(text) ==
    IF text = <<>> THEN <<>>
    ELSE LET c == Head(text)
         IN  (IF c < 128 THEN <<c>>
              ELSE IF c < 2048 THEN <<192 + (c \div 64), 128 + (c % 64)>>
              ELSE <<224 + (c \div 4096), 128 + ((c \div 64) % 64),
                     128 + (c % 64)>>)
             \o Utf8Encode(Tail(text))

\* the test of processTextContent's inner loop
IsPrintable(byte) ==
    (byte >= 32 /\ byte <= 126) \/ byte = 9 \/ byte = 10 \/ byte = 13

\* consecutivePrintable for the index i: the printable bytes from i on, up
\* to the first other byte, index i + 20 or the end
ConsecutivePrintable(content, i) ==
    LET last == Min(i + 20, Len(content))
        others == {j \in i..(last - 1) : ~IsPrintable(content[j + 1])}
    IN  IF others = {} THEN last - i
        ELSE (CHOOSE j \in others : \A k \in others : j <= k) - i

\* cleanTextStart: the first index i < content.length - 10 with ten
\* printable bytes from it on, or -1
CleanTextStart(content) ==
    LET starts == {i \in 0..(Len(content) - 11) :
                      ConsecutivePrintable(content, i) >= 10}
    IN  IF starts = {} THEN -1
        ELSE CHOOSE i \in starts : \A j \in starts : i <= j

\* s.replace(/^[^...]*/, ''): the leading code units outside 0x20-0x7E and
\* outside 0xA0-0xFFFF are removed
RECURSIVE StripLeadingNonPrintable(_)
StripLeadingNonPrintable(s) ==
    IF s # <<>> /\ ~((Head(s) >= 32 /\ Head(s) <= 126) \/ Head(s) >= 160)
    THEN StripLeadingNonPrintable(Tail(s)) ELSE s

\* s.replace(/\*\*%%.*$/s, ''): with the s flag the text from the leftmost
\* '**%%' to the end is removed
StripFromClosingToken(s) ==
    IF IndexOf(s, <<42, 42, 37, 37>>) = -1 THEN s
    ELSE Substring(s, 0, IndexOf(s, <<42, 42, 37, 37>>))

\* processTextContent: the text of a buffer
processTextContent(content) ==
    LET cleanTextStart == CleanTextStart(content)
        sigIndex == IndexOf(content, SIGNATURE_MARKER)
        clean(s) == Trim(StripTrailingStars(StripFromClosingToken(
                        StripLeadingNonPrintable(s))))
    IN  IF cleanTextStart # -1
        THEN Trim(StripTrailingStars(
                 Utf8Decode(SubstringFrom(content, cleanTextStart))))
        ELSE IF sigIndex # -1
        THEN clean(Utf8Decode(
                 SubstringFrom(content, sigIndex + Len(SIGNATURE_MARKER))))
        ELSE clean(Utf8Decode(content))

XML_DECLARATION == <<60, 63, 120, 109, 108>>                 \* '<?xml'
FORMINFO == <<60, 70, 79, 82, 77, 73, 78, 70, 79>>           \* '<FORMINFO'
\* '<VALUATION_RESPONSE'
VALUATION_RESPONSE ==
    <<60, 86, 65, 76, 85, 65, 84, 73, 79, 78, 95, 82, 69, 83, 80, 79, 78, 83, 69>>
XML == <<88, 77, 76>>
FORM == <<70, 79, 82, 77>>
DOT_TXT == <<46, 116, 120, 116>>                             \* '.txt'

\* processXMLContent: the text of a buffer
processXMLContent(content) ==
    LET contentStr == Utf8Decode(content)
        xmlStart ==
            IF IndexOf(contentStr, XML_DECLARATION) # -1
            THEN IndexOf(contentStr, XML_DECLARATION)
            ELSE IF IndexOf(contentStr, FORMINFO) # -1
            THEN IndexOf(contentStr, FORMINFO)
            ELSE IndexOf(contentStr, VALUATION_RESPONSE)
    IN  IF xmlStart # -1
        THEN Trim(StripTrailingStars(StripClosingToken(
                 SubstringFrom(contentStr, xmlStart))))
        ELSE Trim(contentStr)

\* the branch the if chain of the for loop takes for a record
Handling(file) ==
    IF Includes(file.type, IMAGE) \/ Includes(file.doctype, IMAGE)
    THEN "image"
    ELSE IF file.extension = DOT_TXT \/ Includes(file.type, PLAINTEXT)
    THEN "text"
    ELSE IF Includes(file.type, XML) \/ Includes(file.doctype, FORM)
    THEN "xml"
    ELSE "raw"

\* a record that carries a content buffer
HasContent(file) == "content" \in DOMAIN file

\* processTextContent and processXMLContent throw for a record without
\* content (content.length, content.toString of undefined)
ProcessingThrows(file) ==
    ~HasContent(file) /\ Handling(file) \in {"text", "xml"}

\* the bytes written for a record that has content: a text is written
\* encoded as UTF-8, a buffer as it is
WrittenBytes(file) ==
    IF Handling(file) = "text" THEN Utf8Encode(processTextContent(file.content))
    ELSE IF Handling(file) = "xml" THEN Utf8Encode(processXMLContent(file.content))
    ELSE file.content

-----------------------------------------------------------------------------
(* Inputs of the scanner specification *)

RECURSIVE Concat(_)
Concat(ss) == IF ss = <<>> THEN <<>> ELSE Head(ss) \o Concat(Tail(ss))

\* the delimiter, its two halves, a filler byte and a lone star
ScanPieces ==
    { SECTION_DELIMITER, <<42, 42, 37, 37>>, <<68, 79, 67, 85>>, <<97>>, <<42>> }

ScanInputs ==
    UNION { {Concat(ps) : ps \in [1..n -> ScanPieces]} : n \in 0..MaxPieces }

-----------------------------------------------------------------------------
(* Archive files of the pipeline specification, as bytes on disk *)

\* '\nTYPE/PLAINTEXT\n_SIG/D.C.' 01 02 03 04 05 'Hello, world'
TextSection ==
    <<10, 84, 89, 80, 69, 47, 80, 76, 65, 73, 78, 84, 69, 88, 84, 10, 95, 83, 73, 71, 47, 68, 46, 67, 46, 1, 2, 3, 4, 5, 72, 101, 108, 108, 111, 44, 32, 119, 111, 114, 108, 100>>

\* '\nTYPE/IMAGE\nFILENAME/a.jpg\n_SIG/D.C.' 00 01 02 03 04 05 FF D8 FF D9
ImageSection ==
    <<10, 84, 89, 80, 69, 47, 73, 77, 65, 71, 69, 10, 70, 73, 76, 69, 78, 65, 77, 69, 47, 97, 46, 106, 112, 103, 10, 95, 83, 73, 71, 47, 68, 46, 67, 46, 0, 1, 2, 3, 4, 5, 255, 216, 255, 217>>

\* '\nGUID/g\nnope': no signature marker
UnsignedSection ==
    <<10, 71, 85, 73, 68, 47, 103, 10, 110, 111, 112, 101>>

\* '\nGUID/aaaaaaaa1\nEXT/.txt\n_SIG/D.C.x': no FILENAME
AnonymousSectionA ==
    <<10, 71, 85, 73, 68, 47, 97, 97, 97, 97, 97, 97, 97, 97, 49, 10, 69, 88, 84, 47, 46, 116, 120, 116, 10, 95, 83, 73, 71, 47, 68, 46, 67, 46, 120>>

\* '\nFILENAME/\nGUID/bbbbbbbb2\nEXT/.xml\n_SIG/D.C.y': empty FILENAME
AnonymousSectionB ==
    <<10, 70, 73, 76, 69, 78, 65, 77, 69, 47, 10, 71, 85, 73, 68, 47, 98, 98, 98, 98, 98, 98, 98, 98, 50, 10, 69, 88, 84, 47, 46, 120, 109, 108, 10, 95, 83, 73, 71, 47, 68, 46, 67, 46, 121>>

\* '\nFILENAME/e\n_SIG/D.C.': a payload of length zero
EmptySection ==
    <<10, 70, 73, 76, 69, 78, 65, 77, 69, 47, 101, 10, 95, 83, 73, 71, 47, 68, 46, 67, 46>>

SectionCatalogue ==
    { TextSection, ImageSection, UnsignedSection,
      AnonymousSectionA, AnonymousSectionB, EmptySection }

\* 'HDR', the preamble before the first delimiter
Preamble == <<72, 68, 82>>

\* a preamble, then each section behind a delimiter token
RECURSIVE Archive(_)
Archive(sections) ==
    IF sections = <<>> THEN Preamble
    ELSE Archive(SubSeq(sections, 1, Len(sections) - 1))
            \o SECTION_DELIMITER \o sections[Len(sections)]

ArchiveFiles ==
    UNION { {Archive(ss) : ss \in [1..n -> SectionCatalogue]} : n \in 0..MaxSections }

\* what the read stream delivers for each file
ArchiveTexts == {Utf8Decode(bytes) : bytes \in ArchiveFiles}

-----------------------------------------------------------------------------
(* Inputs of the extraction specification *)

\* lists hold at most this many records
MaxRecords == 2
\* filenames tried on their own hold at most this many characters
MaxName == 3

\* a record as processSectionToFile builds it
Record(filename, extension, type, doctype, guid, content) ==
    [filename |-> filename, extension |-> extension, type |-> type,
     doctype |-> doctype, sha1 |-> <<>>, guid |-> guid, envGuid |-> <<>>,
     content |-> content, size |-> Len(content), startLine |-> 0,
     endLine |-> 0]

\* a record whose content is undefined
WithoutContent(file) == [k \in (DOMAIN file) \ {"content"} |-> file[k]]

\* 'n.txt', PLAINTEXT: 01 02 03 04 05 'Hello, world'
NoisyText ==
    Record(<<110, 46, 116, 120, 116>>, DOT_TXT, PLAINTEXT, <<>>, <<103, 49>>,
           <<1, 2, 3, 4, 5, 72, 101, 108, 108, 111, 44, 32, 119, 111, 114, 108, 100>>)

\* 'late', PLAINTEXT: FF 'Hello, wor', the printable run is the last 10 bytes
LateText ==
    Record(<<108, 97, 116, 101>>, <<>>, PLAINTEXT, <<>>, <<103, 50>>,
           <<255, 72, 101, 108, 108, 111, 44, 32, 119, 111, 114>>)

\* 'a.webp', IMAGE: a RIFF container
Picture ==
    Record(<<97, 46, 119, 101, 98, 112>>, DOT_WEBP, IMAGE, <<>>, <<103, 51>>,
           <<82, 73, 70, 70, 4, 0, 0, 0, 87, 69, 66, 80>>)

\* 'b.txt', type 'BIN', extension '.txt': 00 01 'binary data' 0A
BinaryNamedTxt ==
    Record(<<98, 46, 116, 120, 116>>, DOT_TXT, <<66, 73, 78>>, <<>>, <<103, 52>>,
           <<0, 1, 98, 105, 110, 97, 114, 121, 32, 100, 97, 116, 97, 10>>)

\* 'd', doctype 'PLAINTEXT', no type: 00 01 'doctype text'
DoctypeText ==
    Record(<<100>>, <<>>, <<>>, PLAINTEXT, <<103, 53>>,
           <<0, 1, 100, 111, 99, 116, 121, 112, 101, 32, 116, 101, 120, 116>>)

\* 'f.xml', type 'XML': 07 '<?xml?><a/>**%%'
Form ==
    Record(<<102, 46, 120, 109, 108>>, <<46, 120, 109, 108>>, XML, <<>>,
           <<103, 54>>,
           <<7, 60, 63, 120, 109, 108, 63, 62, 60, 97, 47, 62, 42, 42, 37, 37>>)

\* '../../etc/p', type 'BIN': 'root'
Climbing ==
    Record(<<46, 46, 47, 46, 46, 47, 101, 116, 99, 47, 112>>, <<>>,
           <<66, 73, 78>>, <<>>, <<103, 55>>, <<114, 111, 111, 116>>)

\* no filename, guid 'g', extension '/../../out2/x': the sentinel name leads
\* to the sibling directory /a/out2
AnonymousSibling ==
    Record(<<>>, <<47, 46, 46, 47, 46, 46, 47, 111, 117, 116, 50, 47, 120>>,
           <<>>, <<>>, <<103>>, <<115, 105, 98>>)

\* no filename, guid 'g', extension '/../../x': the sentinel name leads to /a/x
AnonymousOutside ==
    Record(<<>>, <<47, 46, 46, 47, 46, 46, 47, 120>>, <<>>, <<>>, <<103>>,
           <<111, 117, 116>>)

\* 'u.txt', PLAINTEXT, content undefined
Undefined ==
    WithoutContent(Record(<<117, 46, 116, 120, 116>>, DOT_TXT, PLAINTEXT, <<>>,
                          <<103, 56>>, <<>>))

RecordCatalogue ==
    { NoisyText, Picture, BinaryNamedTxt, Form, AnonymousSibling,
      AnonymousOutside, Undefined }

\* the characters of the filenames tried on their own: '.', '/', '\', 'x'
NameCharacters == {46, 47, 92, 120}

Names == UNION { [1..n -> NameCharacters] : n \in 1..MaxName }

\* a record of the pass-through type with the filename
Named(filename) == Record(filename, <<>>, <<66, 73, 78>>, <<>>, <<103>>, <<120>>)

\* the lists of records of the catalogue, and on their own the records with
\* a filename that climbs and two more text records
RecordLists ==
    UNION { [1..n -> RecordCatalogue] : n \in 0..MaxRecords }
        \cup { <<Named(filename)>> : filename \in Names }
        \cup { <<Climbing>>, <<LateText>>, <<DoctypeText>> }

OUT == <<47, 97, 47, 111, 117, 116>>                         \* '/a/out'

\* the file system with the entries of ps, given as <<path, entry>>
FileSystem(ps) == [p \in {e[1] : e \in ps} |-> (CHOOSE e \in ps : e[1] = p)[2]]

Root == <<<<47>>, Directory("rw")>>
A(entry) == <<<<47, 97>>, entry>>
Out(entry) == <<OUT, entry>>
Out2 == <<OUT \o <<50>>, Directory("rw")>>

\* the output directory and the file system extractFilesToDisk is called in
Destinations ==
    { \* nothing there: '/a/out' is created, with '/a' where it is missing
      [outputDir |-> OUT, disk |-> FileSystem({Root, A(Directory("rw"))})],
      [outputDir |-> OUT, disk |-> FileSystem({Root})],
      \* '/a/out' cannot be created in '/a'
      [outputDir |-> OUT, disk |-> FileSystem({Root, A(Directory("ro"))})],
      \* '/a/out' is there, beside '/a/out2'
      [outputDir |-> OUT,
       disk |-> FileSystem({Root, A(Directory("rw")), Out(Directory("rw")), Out2})],
      \* '/a/out' is there and holds a directory 'a.webp' and a read-only
      \* file 'late'
      [outputDir |-> OUT,
       disk |-> FileSystem({Root, A(Directory("rw")), Out(Directory("rw")),
                   <<OUT \o <<47, 97, 46, 119, 101, 98, 112>>, Directory("rw")>>,
                   <<OUT \o <<47, 108, 97, 116, 101>>, RegularFile("ro", <<48>>)>>})],
      \* '/a/out' is there and cannot be written
      [outputDir |-> OUT,
       disk |-> FileSystem({Root, A(Directory("rw")), Out(Directory("ro"))})],
      \* '/a/out' is a file
      [outputDir |-> OUT,
       disk |-> FileSystem({Root, A(Directory("rw")), Out(RegularFile("rw", <<48>>))})],
      \* '/a' is a file, cannot be searched, or is a link that loops
      [outputDir |-> OUT, disk |-> FileSystem({Root, A(RegularFile("rw", <<48>>))})],
      [outputDir |-> OUT,
       disk |-> FileSystem({Root, A(Directory("none")), Out(Directory("rw"))})],
      [outputDir |-> OUT, disk |-> FileSystem({Root, A(LoopingLink)})],
      \* the empty string for the output directory
      [outputDir |-> <<>>, disk |-> FileSystem({Root, A(Directory("rw"))})] }

-----------------------------------------------------------------------------
(* Archive files of image sections, as bytes on disk *)

\* '\nTYPE/IMAGE\n_SIG/D.C.'
ImageHeader ==
    <<10, 84, 89, 80, 69, 47, 73, 77, 65, 71, 69, 10, 95, 83, 73, 71, 47, 68, 46, 67, 46>>

\* '\nDOCTYPE/IMAGE\n_SIG/D.C.'
ImageDoctypeHeader ==
    <<10, 68, 79, 67, 84, 89, 80, 69, 47, 73, 77, 65, 71, 69, 10, 95, 83, 73, 71, 47, 68, 46, 67, 46>>

\* The payloads. C3 BF C3 98 is the UTF-8 text of U+00FF U+00D8, which
\* Buffer.from(text, 'binary') turns into FF D8.
ImagePayloads ==
    { <<0, 1, 82, 73, 70, 70, 120, 121>>,                    \* 00 01 'RIFFxy'
      \* 00 (FF D8) 'ab' 'RIFF' 'z'
      <<0, 195, 191, 195, 152, 97, 98, 82, 73, 70, 70, 122>>,
      <<0, 1, 195, 191, 195, 152, 97, 98>>,                  \* 00 01 (FF D8) 'ab'
      <<112, 108, 97, 105, 110>>,                            \* 'plain'
      <<0, 255, 216, 255, 217>>,                             \* 00 FF D8 FF D9
      <<>> }

ImageArchives ==
    {Preamble \o SECTION_DELIMITER \o head \o payload :
        head \in {ImageHeader, ImageDoctypeHeader}, payload \in ImagePayloads}

ImageArchiveTexts == {Utf8Decode(bytes) : bytes \in ImageArchives}

-----------------------------------------------------------------------------
(* Archive files in the layout of the README, as bytes on disk *)

\* '\nTYPE/BIN\n_SIG/D.C.': a type that is passed through
PlainHeader ==
    <<10, 84, 89, 80, 69, 47, 66, 73, 78, 10, 95, 83, 73, 71, 47, 68, 46, 67, 46>>

\* 'data', and '\nda\nta\n' as the README lays the content out
LayoutPayloads == { <<100, 97, 116, 97>>, <<10, 100, 97, 10, 116, 97, 10>> }

\* what closes a section: '**%%', the delimiter's prefix '**%%DOC', or '**'
Remnants == { <<42, 42, 37, 37>>, <<42, 42, 37, 37, 68, 79, 67>>, <<42, 42>> }

\* the line break the README shows after the closing token, or none
LineBreaks == { <<>>, <<10>> }

\* a file of one section, closed by the delimiter of the next
LayoutArchive(head, payload, remnant, break) ==
    Preamble \o SECTION_DELIMITER \o head \o payload \o remnant \o break
        \o SECTION_DELIMITER

LayoutCases ==
    {ImageHeader, PlainHeader} \X LayoutPayloads \X Remnants \X LineBreaks

LayoutArchiveTexts ==
    {Utf8Decode(LayoutArchive(c[1], c[2], c[3], c[4])) : c \in LayoutCases}

-----------------------------------------------------------------------------
(* Actions *)

ChunkLengths == (1..Min(MaxChunk, Len(input) - pos)) \cup {Len(input) - pos}

\* feed(chunk): sectionExtractor's transform on a chunk of any length
Feed ==
    /\ source = "open"
    /\ pos < Len(input)
    /\ \E n \in ChunkLengths :
         /\ n > 0
         /\ pos' = pos + n
         /\ SetScanner(Transform(Scanner, Substring(input, pos, pos + n)))
    /\ UNCHANGED <<extractVars, header>>
    /\ UNCHANGED <<input, source, pipeVars>>

\* the read stream delivers its next chunk, of highWaterMark code units or
\* what is left of the file, and sectionExtractor transforms it
Read ==
    /\ source = "open"
    /\ pos < Len(input)
    /\ LET n == Min(HighWaterMark, Len(input) - pos)
       IN  /\ pos' = pos + n
           /\ SetScanner(Transform(Scanner, Substring(input, pos, pos + n)))
    /\ UNCHANGED <<extractVars, header>>
    /\ UNCHANGED <<input, source, pipeVars>>

\* the read stream ends: sectionExtractor's flush runs
Finish ==
    /\ source = "open"
    /\ pos = Len(input)
    /\ source' = "ended"
    /\ SetScanner(Flush(Scanner))
    /\ UNCHANGED <<extractVars, header>>
    /\ UNCHANGED <<input, pos, pipeVars>>

\* Collected with the record put in front (unshift for push)
CollectedInFront(fs, file) == <<file>> \o fs

\* fileCollector's transform: files.push(file)
Collected(fs, file) == Append(fs, file)

\* parseCompoundFile has not settled
Pending == [status |-> "pending", value |-> <<>>, message |-> ""]

\* return files
Returned(fs) == [status |-> "returned", value |-> fs, message |-> ""]

\* the catch block: the error thrown for the code of the stream's error
Thrown(code) ==
    [status |-> "thrown", value |-> <<>>,
     message |-> IF code = "ENOENT" THEN "File not found"
                 ELSE IF code = "EACCES" THEN "Access denied"
                 ELSE "Failed to process file"]

\* the errors of the read stream: opening fails before the first chunk, a
\* read fails or the stream is destroyed at any point
ErrorCodes == IF pos = 0 THEN {"ENOENT", "EACCES", "EIO"} ELSE {"EIO", "ABORT"}

running == source # "failed" /\ outcome.status = "pending"

\* fileProcessor takes the next section; a section that needs no codec is
\* settled at once (null: nothing pushed), an image section waits
StartProcess ==
    /\ running
    /\ inflight = <<>>
    /\ taken < Len(emitted)
    /\ taken' = taken + 1
    /\ LET section == emitted[taken + 1]
       IN  IF AwaitsCodec(section.content)
           THEN /\ inflight' = <<section>>
                /\ UNCHANGED processed
           ELSE /\ inflight' = <<>>
                /\ processed' = processed \o
                     processSectionToFile(section.content,
                                          section.sectionNumber, NoCodec)
    /\ UNCHANGED <<extractVars, header>>
    /\ UNCHANGED <<input, pos, source, scannerVars, files, outcome>>

\* the codec answers: processSectionToFile resumes and fileProcessor pushes
CodecSettle ==
    /\ running
    /\ inflight # <<>>
    /\ \E codec \in CodecAnswers :
         processed' = processed \o
             processSectionToFile(inflight[1].content,
                                  inflight[1].sectionNumber, codec)
    /\ inflight' = <<>>
    /\ UNCHANGED <<extractVars, header>>
    /\ UNCHANGED <<input, pos, source, scannerVars, taken, files, outcome>>

\* fileCollector receives the next record
Collect ==
    /\ running
    /\ Len(files) < Len(processed)
    /\ files' = Collected(files, processed[Len(files) + 1])
    /\ UNCHANGED <<extractVars, header>>
    /\ UNCHANGED <<input, pos, source, scannerVars, taken, inflight, processed,
                   outcome>>

\* every stream has finished: pipeline resolves and parseCompoundFile returns
Return ==
    /\ running
    /\ source = "ended"
    /\ taken = Len(emitted)
    /\ inflight = <<>>
    /\ Len(files) = Len(processed)
    /\ outcome' = Returned(files)
    /\ UNCHANGED <<extractVars, header>>
    /\ UNCHANGED <<input, pos, source, scannerVars, taken, inflight, processed,
                   files>>

\* SourceError with the streams ended instead of destroyed: flush runs
SourceErrorFlushes ==
    /\ source = "open"
    /\ outcome.status = "pending"
    /\ source' = "failed"
    /\ \E code \in ErrorCodes : outcome' = Thrown(code)
    /\ SetScanner(Flush(Scanner))
    /\ UNCHANGED <<extractVars, header>>
    /\ UNCHANGED <<input, pos, taken, inflight, processed, files>>

\* the read stream fails: pipeline destroys every stream (no flush, no
\* further transform) and rejects, and parseCompoundFile throws
SourceError ==
    /\ source = "open"
    /\ outcome.status = "pending"
    /\ source' = "failed"
    /\ \E code \in ErrorCodes : outcome' = Thrown(code)
    /\ UNCHANGED <<extractVars, header>>
    /\ UNCHANGED <<input, pos, scannerVars, taken, inflight, processed, files>>

-----------------------------------------------------------------------------
(* extractFilesToDisk *)

\* const absoluteOutputDir = path.resolve(outputDir)
absoluteOutputDir == Resolve(outputDir)

\* a console line: the record it is about (0: the whole call), what it
\* says and the path it names
Line(n, says, path) == [record |-> n, says |-> says, path |-> path]

\* ValidationError without the test of the write permission (fs.access)
ValidationErrorNoAccessTest(fs, dir) ==
    LET found == Stat(fs, Resolve(dir))
    IN  IF dir = <<>> THEN "Invalid output directory"
        ELSE IF found = "file" THEN "exists but is not a directory"
        ELSE IF found = "dir" THEN ""
        ELSE IF found = "ENOENT"
        THEN IF Mkdir(fs, Resolve(dir)) = <<>> THEN "Failed to create" ELSE ""
        ELSE IF found \in {"EACCES", "EPERM"} THEN "Access denied"
        ELSE IF found = "ENOTDIR" THEN "ENOTDIR: not a directory"
        ELSE "Cannot access"

\* the error the validation of the output directory throws, "" when it
\* passes; the message's leading words stand for the message
ValidationError(fs, dir) ==
    LET found == Stat(fs, Resolve(dir))
    IN  IF dir = <<>> THEN "Invalid output directory"
        ELSE IF found = "file" THEN "exists but is not a directory"
        ELSE IF found = "dir"
        THEN IF AccessWrite(fs, Resolve(dir)) = "" THEN "" ELSE "Access denied"
        ELSE IF found = "ENOENT"
        THEN IF Mkdir(fs, Resolve(dir)) = <<>> THEN "Failed to create" ELSE ""
        ELSE IF found \in {"EACCES", "EPERM"} THEN "Access denied"
        ELSE IF found = "ENOTDIR" THEN "ENOTDIR: not a directory"
        ELSE "Cannot access"

\* the output directory validation: stat, access and, for a directory that
\* is not there, mkdir; an error is thrown to the caller
Validate ==
    /\ phase = "validate"
    /\ LET error == ValidationError(disk, outputDir)
       IN  IF error # ""
           THEN /\ phase' = "failed"
                /\ report' = Append(report, Line(0, error, <<>>))
                /\ UNCHANGED disk
           ELSE /\ phase' = "extract"
                /\ UNCHANGED report
                /\ disk' = IF Stat(disk, absoluteOutputDir) = "ENOENT"
                           THEN Mkdir(disk, absoluteOutputDir)[1] ELSE disk
    /\ UNCHANGED <<records, outputDir, position, run, firstRun>>
    /\ UNCHANGED <<parseVars, header>>

\* ExtractFile without the try blocks around a record: the first record
\* that fails ends the call
ExtractFileUncaught ==
    /\ phase = "extract"
    /\ position < Len(records)
    /\ LET file == records[position + 1]
           outputPath == Join(absoluteOutputDir, SanitizedFilename(file))
           said(says) == Append(report, Line(position + 1, says, outputPath))
           failed == /\ phase' = "failed"
                     /\ position' = position
                     /\ UNCHANGED disk
       IN  IF ~StartsWith(outputPath, absoluteOutputDir)
           THEN /\ report' = said("skipped")
                /\ phase' = phase
                /\ position' = position + 1
                /\ UNCHANGED disk
           ELSE IF ProcessingThrows(file)
           THEN report' = said("error processing") /\ failed
           ELSE IF ~HasContent(file)
                   \/ WriteFile(disk, outputPath, WrittenBytes(file)) = <<>>
           THEN report' = said("failed to write") /\ failed
           ELSE /\ report' = said("extracted")
                /\ phase' = phase
                /\ position' = position + 1
                /\ disk' = WriteFile(disk, outputPath, WrittenBytes(file))[1]
    /\ UNCHANGED <<records, outputDir, run, firstRun>>
    /\ UNCHANGED <<parseVars, header>>

\* one turn of the for loop: the record's name is sanitized and joined to
\* the output directory, a path that does not start with the directory is
\* skipped, the content is processed and written; what is thrown is caught
\* and reported, and the loop goes on
ExtractFile ==
    /\ phase = "extract"
    /\ position < Len(records)
    /\ position' = position + 1
    /\ LET file == records[position + 1]
           outputPath == Join(absoluteOutputDir, SanitizedFilename(file))
           said(says) == Append(report, Line(position + 1, says, outputPath))
       IN  IF ~StartsWith(outputPath, absoluteOutputDir)
           THEN report' = said("skipped") /\ UNCHANGED disk
           ELSE IF ProcessingThrows(file)
           THEN report' = said("error processing") /\ UNCHANGED disk
           ELSE IF ~HasContent(file)
                   \/ WriteFile(disk, outputPath, WrittenBytes(file)) = <<>>
           THEN report' = said("failed to write") /\ UNCHANGED disk
           ELSE /\ report' = said("extracted")
                /\ disk' = WriteFile(disk, outputPath, WrittenBytes(file))[1]
    /\ UNCHANGED <<records, outputDir, phase, run, firstRun>>
    /\ UNCHANGED <<parseVars, header>>

\* the loop is over: extractFilesToDisk resolves
Complete ==
    /\ phase = "extract"
    /\ position = Len(records)
    /\ phase' = "done"
    /\ UNCHANGED <<records, outputDir, disk, position, report, run, firstRun>>
    /\ UNCHANGED <<parseVars, header>>

\* the caller calls extractFilesToDisk again with the same arguments
Again ==
    /\ phase \in {"done", "failed"}
    /\ run = 1
    /\ run' = 2
    /\ firstRun' = <<[disk |-> disk, phase |-> phase, report |-> report]>>
    /\ phase' = "validate"
    /\ position' = 0
    /\ report' = <<>>
    /\ UNCHANGED <<records, outputDir, disk>>
    /\ UNCHANGED <<parseVars, header>>

-----------------------------------------------------------------------------
(* parseMetadata on header blocks *)

\* header blocks hold at most this many lines
MaxLines == 2

\* 'K/v', 'K/w', ' K / v/x ', '/v', 'plain', '', 'K/', 'L/a' CR, ' / '
HeaderLines ==
    { <<75, 47, 118>>, <<75, 47, 119>>,
      <<32, 75, 32, 47, 32, 118, 47, 120, 32>>, <<47, 118>>,
      <<112, 108, 97, 105, 110>>, <<>>, <<75, 47>>, <<76, 47, 97, 13>>,
      <<32, 47, 32>> }

HeaderBlocks ==
    UNION { {JoinWith(lines, 10) : lines \in [1..n -> HeaderLines]} :
               n \in 0..MaxLines }

\* the keys of a mapping in every order
Orders(metadata) ==
    {order \in [1..Cardinality(DOMAIN metadata) -> DOMAIN metadata] :
        \A i, j \in DOMAIN order : order[i] = order[j] => i = j}

\* the text of a mapping: one line 'KEY/value' per entry, in the order given
Serialized(metadata, order) ==
    JoinWith([i \in DOMAIN order |-> order[i] \o <<47>> \o metadata[order[i]]], 10)

NoHeader == [stage |-> "idle", block |-> <<>>, metadata |-> EmptyMetadata,
             text |-> <<>>, reparsed |-> EmptyMetadata]

\* parseMetadata(block)
ParseHeader ==
    /\ header.stage = "block"
    /\ header' = [header EXCEPT !.stage = "parsed",
                                !.metadata = parseMetadata(header.block)]
    /\ UNCHANGED <<parseVars, extractVars>>

\* the mapping is written out as text, and parseMetadata parses the text
Reparse ==
    /\ header.stage = "parsed"
    /\ \E order \in Orders(header.metadata) :
         header' = [header EXCEPT
                      !.stage = "reparsed",
                      !.text = Serialized(header.metadata, order),
                      !.reparsed = parseMetadata(Serialized(header.metadata, order))]
    /\ UNCHANGED <<parseVars, extractVars>>

InitPipe ==
    /\ taken = 0
    /\ inflight = <<>>
    /\ processed = <<>>
    /\ files = <<>>
    /\ outcome = Pending

InitScanner ==
    /\ pos = 0
    /\ source = "open"
    /\ buffer = NewScanner.buffer
    /\ sectionCount = NewScanner.sectionCount
    /\ currentSection = NewScanner.currentSection
    /\ inSection = NewScanner.inSection
    /\ emitted = NewScanner.out

\* extractFilesToDisk has not been called
InitNoExtract ==
    /\ records = <<>>
    /\ outputDir = <<>>
    /\ disk = FileSystem({Root})
    /\ phase = "idle"
    /\ position = 0
    /\ report = <<>>
    /\ run = 0
    /\ firstRun = <<>>

InitExtract ==
    /\ input = <<>>
    /\ InitScanner
    /\ InitPipe
    /\ records \in RecordLists
    /\ \E destination \in Destinations :
         /\ outputDir = destination.outputDir
         /\ disk = destination.disk
    /\ phase = "validate"
    /\ position = 0
    /\ report = <<>>
    /\ run = 1
    /\ firstRun = <<>>
    /\ header = NoHeader

NextExtract == Validate \/ ExtractFile \/ Complete \/ Again

\* extractFilesToDisk on a list of records, called twice
SpecExtract == InitExtract /\ [][NextExtract]_vars

InitMetadata ==
    /\ input = <<>>
    /\ InitScanner
    /\ InitPipe
    /\ InitNoExtract
    /\ \E block \in HeaderBlocks : header = [NoHeader EXCEPT !.stage = "block",
                                                           !.block = block]

NextMetadata == ParseHeader \/ Reparse

\* parseMetadata on a header block and on the text of its result
SpecMetadata == InitMetadata /\ [][NextMetadata]_vars

InitScan ==
    /\ input \in ScanInputs
    /\ InitScanner
    /\ InitPipe
    /\ InitNoExtract
    /\ header = NoHeader

NextScan == Feed \/ Finish

\* the scanner driven by feed and finish alone
SpecScan == InitScan /\ [][NextScan]_vars

Init ==
    /\ input \in ArchiveTexts
    /\ InitScanner
    /\ InitPipe
    /\ InitNoExtract
    /\ header = NoHeader

Next ==
    \/ Read
    \/ Finish
    \/ StartProcess
    \/ CodecSettle
    \/ Collect
    \/ Return
    \/ SourceError

\* parseCompoundFile on an archive file
Spec == Init /\ [][Next]_vars

InitImages ==
    /\ input \in ImageArchiveTexts
    /\ InitScanner
    /\ InitPipe
    /\ InitNoExtract
    /\ header = NoHeader

\* parseCompoundFile on an archive file of one image section
SpecImages == InitImages /\ [][Next]_vars

InitLayout ==
    /\ input \in LayoutArchiveTexts
    /\ InitScanner
    /\ InitPipe
    /\ InitNoExtract
    /\ header = NoHeader

\* parseCompoundFile on an archive file laid out as the README shows
SpecLayout == InitLayout /\ [][Next]_vars

-----------------------------------------------------------------------------
(* Claims about the scanner *)

\* number of occurrences of the delimiter token in s
Occurrences(s) ==
    Cardinality({i \in 0..(Len(s) - Len(SECTION_DELIMITER)) :
                     OccursAt(s, SECTION_DELIMITER, i)})

AtLeastZero(n) == IF n < 0 THEN 0 ELSE n

\* what one transform call on the whole input, then flush, pushes
WholeInputSections == Flush(Transform(NewScanner, input)).out

\* C1: for every input and every chunking of it, the sections pushed by the
\* feeds and the final flush are those pushed when the whole input is fed as
\* one chunk and then flushed.
C1_ChunkingIndependent ==
    source = "ended" => emitted = WholeInputSections

\* C2: the feeds of an input with N delimiter occurrences push at most N-1
\* sections (none when N is 0 or 1), counted on the part fed so far, and
\* flush adds at most one more.
C2_SectionCountBound ==
    /\ source = "open" =>
          /\ Len(emitted) <= AtLeastZero(Occurrences(Substring(input, 0, pos)) - 1)
          /\ Len(emitted) = sectionCount
    /\ source = "ended" =>
          /\ sectionCount <= AtLeastZero(Occurrences(input) - 1)
          /\ Len(emitted) - sectionCount \in {0, 1}

\* two delimiters: one section from the feeds and one more from flush
C2_Witness ==
    /\ source = "ended"
    /\ Occurrences(input) = 2
    /\ sectionCount = 1
    /\ Len(emitted) = 2

\* C3: flush pushes exactly one section, holding every byte of the input
\* after the last delimiter the scanner recognized, when the scanner is
\* in-section with something pending; it pushes nothing when nothing is
\* pending, and nothing was ever pushed when no delimiter was found.
C3_FlushEmitsPending ==
    source = "ended" =>
        LET flushedCount == Len(emitted) - sectionCount
            start == Len(input) - Len(currentSection)
        IN  /\ (inSection /\ currentSection # <<>>) =>
                  /\ flushedCount = 1
                  /\ emitted[Len(emitted)] = Section(sectionCount, currentSection)
                  /\ currentSection = SubstringFrom(input, start)
                  /\ OccursAt(input, SECTION_DELIMITER,
                              start - Len(SECTION_DELIMITER))
            /\ ~(inSection /\ currentSection # <<>>) => flushedCount = 0
            /\ ~inSection => emitted = <<>>

\* flush pushed a pending section after the feeds had pushed one
C3_Witness ==
    /\ source = "ended"
    /\ inSection
    /\ currentSection # <<>>
    /\ sectionCount >= 1
    /\ Len(emitted) = sectionCount + 1

-----------------------------------------------------------------------------
(* Claims about parseCompoundFile *)

HasMarker(section) == Includes(section.content, SIGNATURE_MARKER)

\* the sections among ss that hold the signature marker, in order
MarkerSections(ss) == SelectSeq(ss, HasMarker)

\* the records processSectionToFile can return for a section with the marker
Records(section) ==
    IF AwaitsCodec(section.content)
    THEN {processSectionToFile(section.content, section.sectionNumber, c)[1] :
              c \in CodecAnswers}
    ELSE {processSectionToFile(section.content, section.sectionNumber, NoCodec)[1]}

\* the sections fileProcessor has taken and settled
Settled ==
    MarkerSections(SubSeq(emitted, 1, taken - Len(inflight)))

\* C4: a section without the signature marker gives no record and no
\* failure: the records pushed are as many as the settled sections that hold
\* the marker, parse throws only when the read stream failed, and when parse
\* returns, every pushed section that holds the marker has its record in the
\* list, wherever the sections without a marker stand.
C4_UnsignedSectionDropped ==
    /\ Len(processed) = Len(Settled)
    /\ outcome.status = "thrown" => source = "failed"
    /\ outcome.status = "returned" =>
          /\ Len(outcome.value) = Len(MarkerSections(emitted))
          /\ \A i \in 1..Len(emitted) :
                HasMarker(emitted[i]) =>
                   \E j \in 1..Len(outcome.value) :
                       outcome.value[j] \in Records(emitted[i])

\* a section without marker came first, the one after it gave the only record
C4_Witness ==
    /\ outcome.status = "returned"
    /\ Len(emitted) = 2
    /\ ~HasMarker(emitted[1])
    /\ HasMarker(emitted[2])
    /\ Len(outcome.value) = 1

\* C5: every record has a size equal to the length of its content and a
\* filename that is not empty, its content being a byte sequence, possibly
\* empty, whatever the section, its type and the codec's answer.
C5_RecordInvariant ==
    \A i \in 1..Len(processed) :
        /\ processed[i].size = Len(processed[i].content)
        /\ processed[i].filename # <<>>
        /\ \A k \in 1..Len(processed[i].content) :
              processed[i].content[k] \in 0..255

\* parse returned a record of length zero and an image record
C5_Witness ==
    /\ outcome.status = "returned"
    /\ \E i \in 1..Len(outcome.value) : outcome.value[i].size = 0
    /\ \E i \in 1..Len(outcome.value) :
          /\ Includes(outcome.value[i].type, IMAGE)
          /\ outcome.value[i].size > 0

\* the file of the scenario: a plain-text section of five non-printable bytes
\* before twelve printable ones, then an image section of six junk bytes
\* before a JPEG stream
ScenarioFile == Archive(<<TextSection, ImageSection>>)

\* C6: for the scenario's file parse returns exactly two records, the first
\* with content starting at the first printable byte of its payload ('Hello,
\* world'), the second with content starting at the JPEG start-of-image
\* marker FF D8.
C6_ScenarioNormalized ==
    (input = Utf8Decode(ScenarioFile) /\ outcome.status = "returned") =>
        /\ Len(outcome.value) = 2
        /\ outcome.value[1].content =
              <<72, 101, 108, 108, 111, 44, 32, 119, 111, 114, 108, 100>>
        /\ OccursAt(outcome.value[2].content, <<255, 216>>, 0)

\* C7: the records are in the order of their sections, one for each section
\* that holds the marker: the i-th record pushed by fileProcessor is a record
\* of the i-th settled section with a marker, the collected list is a prefix
\* of the pushed records, and the list parse returns has one record per
\* pushed section with a marker, in the sections' order.
C7_DiscoveryOrder ==
    /\ Len(processed) <= Len(Settled)
    /\ \A i \in 1..Len(processed) : processed[i] \in Records(Settled[i])
    /\ Len(files) <= Len(processed)
    /\ files = SubSeq(processed, 1, Len(files))
    /\ outcome.status = "returned" =>
          /\ Len(outcome.value) = Len(MarkerSections(emitted))
          /\ \A i \in 1..Len(outcome.value) :
                outcome.value[i] \in Records(MarkerSections(emitted)[i])

\* an image section, which waits for the codec, then a section that does
\* not: both records returned
C7_Witness ==
    /\ outcome.status = "returned"
    /\ Len(emitted) = 2
    /\ AwaitsCodec(emitted[1].content)
    /\ HasMarker(emitted[2])
    /\ ~AwaitsCodec(emitted[2].content)
    /\ Len(outcome.value) = 2
    /\ outcome.value[1] # outcome.value[2]

\* C8: when the read stream fails, parse throws and returns no record, and
\* flush has not run: every pushed section was pushed by a transform call
\* and there are no more records than such sections, so the section
\* accumulating at the failure is in no pushed section and in no record.
C8_SourceFailureAborts ==
    source = "failed" =>
        /\ outcome.status = "thrown"
        /\ outcome.value = <<>>
        /\ Len(emitted) = sectionCount
        /\ Len(processed) <= sectionCount

\* the stream failed after some chunks, with one section pushed and another
\* still accumulating
C8_Witness ==
    /\ source = "failed"
    /\ pos > 0
    /\ sectionCount >= 1
    /\ inSection
    /\ currentSection # <<>>
    /\ outcome.status = "thrown"

Anonymous(section) ==
    LET metadata == SectionMetadata(section.content)
    IN  FILENAME \notin DOMAIN metadata \/ metadata[FILENAME] = <<>>

\* the short identifier and the extension a section declares
Identity(section) ==
    LET metadata == SectionMetadata(section.content)
        guid == OrElse(metadata, GUID, <<>>)
    IN  <<SubSeq(guid, 1, Min(8, Len(guid))), OrElse(metadata, EXT, <<>>)>>

\* C10: two records of sections that declare no FILENAME, with different
\* identifiers or extensions, have different filenames and are written by
\* extract under different names.
C10_SentinelFilenames ==
    (outcome.status = "returned"
       /\ Len(outcome.value) = Len(MarkerSections(emitted))) =>
        LET ms == MarkerSections(emitted)
        IN  \A i, j \in 1..Len(ms) :
               (Anonymous(ms[i]) /\ Anonymous(ms[j])
                  /\ Identity(ms[i]) # Identity(ms[j])) =>
                  /\ outcome.value[i].filename # outcome.value[j].filename
                  /\ SanitizedFilename(outcome.value[i])
                        # SanitizedFilename(outcome.value[j])

-----------------------------------------------------------------------------
(* Claims about the image fallback *)

\* the indexes at which pat occurs in s
OccurrencesOf(s, pat) == {i \in 0..(Len(s) - Len(pat)) : OccursAt(s, pat, i)}

Lowest(S) == CHOOSE i \in S : \A j \in S : i <= j

\* the payload from the first RIFF magic on when it holds one, else from the
\* first FF D8 on when it holds one, else whole
DescribedFallback(payload) ==
    LET riffs == OccurrencesOf(payload, <<82, 73, 70, 70>>)
        jpegs == OccurrencesOf(payload, <<255, 216>>)
    IN  IF riffs # {} THEN SubSeq(payload, Lowest(riffs) + 1, Len(payload))
        ELSE IF jpegs # {} THEN SubSeq(payload, Lowest(jpegs) + 1, Len(payload))
        ELSE payload

\* what the codec answers when it succeeds
Encoded == {answer.data : answer \in {a \in CodecAnswers : a.format # "failed"}}

-----------------------------------------------------------------------------
(* Claims about the trailing remnant *)

\* C21: for a section laid out as documented, the payload followed by '**%%',
\* by a prefix of the delimiter or by '**', and possibly a line break, before
\* the next '**%%DOCU', the content block handed on for normalization is the
\* payload, unchanged and without the remnant, and so is the content of the
\* record of a pass-through type
C21_RemnantStripped ==
    \A c \in LayoutCases :
        input = Utf8Decode(LayoutArchive(c[1], c[2], c[3], c[4])) =>
            /\ \A k \in 1..Len(emitted) :
                  SectionPayload(emitted[k].content) = c[2]
            /\ \A k \in 1..Len(processed) :
                  c[1] = PlainHeader => processed[k].content = c[2]

-----------------------------------------------------------------------------
(* Claims about the scanner's states *)

\* the text fed so far
Fed == Substring(input, 0, pos)

\* s.split(pat): the pieces of s between the occurrences of pat, left to right
RECURSIVE SplitOn(_, _)
SplitOn(s, pat) ==
    IF IndexOf(s, pat) = -1 THEN <<s>>
    ELSE <<Substring(s, 0, IndexOf(s, pat))>>
            \o SplitOn(SubstringFrom(s, IndexOf(s, pat) + Len(pat)), pat)

\* what was fed after the first delimiter, cut at every later delimiter
AfterFirstDelimiter ==
    SplitOn(SubstringFrom(Fed, IndexOf(Fed, SECTION_DELIMITER)
                                  + Len(SECTION_DELIMITER)),
            SECTION_DELIMITER)

\* C16: the scanner is in-section exactly when a whole delimiter token occurs
\* in the text fed so far (so it starts awaiting the first delimiter and never
\* returns to that state); it has emitted nothing while it awaits the first
\* delimiter; and in-section, every later delimiter of the text fed has
\* emitted one section, the text between it and the delimiter before it
C16_ScannerStates ==
    /\ inSection <=> Includes(Fed, SECTION_DELIMITER)
    /\ ~inSection => emitted = <<>>
    /\ (inSection /\ source = "open") =>
          /\ Len(emitted) = Len(AfterFirstDelimiter) - 1
          /\ \A k \in 1..Len(emitted) :
                emitted[k].content = AfterFirstDelimiter[k]

-----------------------------------------------------------------------------
(* Claims about the scanner's bytes *)

\* the contents of the sections, each followed by the delimiter token
RECURSIVE Closed(_)
Closed(sections) ==
    IF sections = <<>> THEN <<>>
    ELSE Head(sections).content \o SECTION_DELIMITER \o Closed(Tail(sections))

\* C22: after every feed call, whatever the chunking: while no delimiter has
\* been recognized the carry-over buffer is all the text fed; afterwards the
\* buffer is empty and the text fed after the first recognized delimiter is
\* the emitted sections joined by the delimiter token, one more delimiter
\* token when a section was emitted, and the pending accumulation: no byte
\* is lost or duplicated
C22_NoByteLost ==
    source = "open" =>
        /\ ~inSection => (buffer = Fed /\ currentSection = <<>>)
        /\ inSection =>
              /\ buffer = <<>>
              /\ SubstringFrom(Fed, IndexOf(Fed, SECTION_DELIMITER)
                                       + Len(SECTION_DELIMITER))
                    = Closed(emitted) \o currentSection

\* a section was emitted and the pending accumulation holds a delimiter token
\* that arrived in two chunks
C22_Witness ==
    /\ source = "open"
    /\ inSection
    /\ emitted # <<>>
    /\ Includes(currentSection, SECTION_DELIMITER)

-----------------------------------------------------------------------------
(* Claims about extraction *)

\* the filename holds '..' (so also '../'), '/' or '\'
Traversing(filename) ==
    \/ Includes(filename, <<46, 46>>)
    \/ Includes(filename, <<47>>)
    \/ Includes(filename, <<92>>)

\* the console lines about records
RecordLines == {k \in 1..Len(report) : report[k].record > 0}

\* C11: for every record whose filename contains '../', '..', '/' or '\',
\* the path computed from the sanitized name and the output directory is
\* strictly inside the output directory: below it, never the directory
\* itself, never outside it
C11_TraversalStaysInside ==
    \A k \in RecordLines :
        Traversing(records[report[k].record].filename)
            => IsStrictlyInside(report[k].path, absoluteOutputDir)

\* a file was written for a record named with '../'
C11_Witness ==
    \E k \in RecordLines :
        /\ Includes(records[report[k].record].filename, <<46, 46, 47>>)
        /\ report[k].says = "extracted"
        /\ report[k].path \in DOMAIN disk

\* the files of a file system, with their content
FilesOf(fs) == {<<p, fs[p].content>> : p \in {q \in DOMAIN fs : fs[q].kind = "file"}}

\* the output directory is there and is no directory, or is there and cannot
\* be written, or is not there and cannot be created
DestinationInvalid(fs, dir) ==
    LET found == Stat(fs, dir)
    IN  \/ found = "file"
        \/ found = "dir" /\ fs[dir].mode # "rw"
        \/ found = "ENOENT" /\ Mkdir(fs, dir) = <<>>

\* C12: when the destination exists and is not a directory, or exists and is
\* not writable, or cannot be created, the call fails with an error and no
\* record is handled and no file changes; a file changes only in the loop
\* that follows a validation that passed
C12_InvalidDestinationAborts ==
    [][ /\ (phase = "validate" /\ outputDir # <<>>
              /\ DestinationInvalid(disk, absoluteOutputDir))
            => /\ phase' = "failed"
               /\ disk' = disk
               /\ position' = 0
               /\ \A k \in 1..Len(report') : report'[k].record = 0
        /\ phase = "failed" => (disk' = disk /\ position' = 0)
        /\ FilesOf(disk') # FilesOf(disk) => (phase = "extract" /\ phase' = "extract")
      ]_vars

\* a call with records failed on a destination that is a file, one that
\* cannot be written or one that cannot be created
C12_Witness ==
    /\ phase = "failed"
    /\ records # <<>>
    /\ DestinationInvalid(disk, absoluteOutputDir)
    /\ Len(report) = 1

\* the write of a record was attempted
Attempted(line) == line.says \in {"extracted", "failed to write"}

\* C13: after the validation has passed every record is handled, in the order
\* of the list, and the call does not fail: a record is left without a write
\* attempt only for its own rejected path or its own processing error,
\* whatever happened to the records before it
C13_BatchContinues ==
    /\ phase \in {"extract", "done"} =>
          /\ Len(report) = position
          /\ \A k \in 1..Len(report) :
                /\ report[k].record = k
                /\ Attempted(report[k])
                     \/ ProcessingThrows(records[k])
                     \/ ~StartsWith(report[k].path, absoluteOutputDir)
    /\ phase = "done" => position = Len(records)
    /\ phase = "failed" => RecordLines = {}

\* a call completed in which a file was written for a record that follows a
\* record whose write failed, one whose processing failed or a skipped one
C13_Witness ==
    /\ phase = "done"
    /\ \E says \in {"failed to write", "error processing", "skipped"} :
         /\ Len(report) = 2
         /\ report[1].says = says
         /\ report[2].says = "extracted"

\* C14: a second call with the same records and the same output directory,
\* made after a first call that completed, does not fail, and when it has
\* completed the file system is as the first call left it: every file
\* written holds the same content
C14_SecondRunSucceeds ==
    (run = 2 /\ firstRun[1].phase = "done") =>
        /\ phase # "failed"
        /\ phase = "done" =>
              /\ disk = firstRun[1].disk
              /\ \A k \in 1..Len(report) :
                    report[k].says = "extracted" =>
                        disk[report[k].path].content
                            = firstRun[1].disk[report[k].path].content

\* the second call completed and wrote a file that the first call had
\* written
C14_Witness ==
    /\ run = 2
    /\ phase = "done"
    /\ firstRun[1].phase = "done"
    /\ \E k \in 1..Len(report) :
         /\ report[k].says = "extracted"
         /\ firstRun[1].report[k].says = "extracted"
         /\ disk[report[k].path].content # <<>>

-----------------------------------------------------------------------------
(* Claims about parseMetadata *)

\* C15: the text of a mapping that parseMetadata returned, one 'KEY/value'
\* line per entry in any order, is parsed by parseMetadata into the same
\* mapping
C15_ReparseIdentical ==
    header.stage = "reparsed" => header.reparsed = header.metadata

\* a mapping of two entries, one with a '/' in its value, was written out
\* and parsed again
C15_Witness ==
    /\ header.stage = "reparsed"
    /\ Cardinality(DOMAIN header.metadata) = 2
    /\ \E key \in DOMAIN header.metadata : Includes(header.metadata[key], <<47>>)
    /\ Occurrences(header.text) = 0
    /\ Len(Split(header.text, 10)) = 2

\* the mapping the claim describes, line by line: the line is trimmed; a
\* blank line, a line without '/' and a line with an empty key are skipped;
\* the key is the trimmed text before the first '/', the value the trimmed
\* text after it; a later line replaces an earlier one with the same key
RECURSIVE DescribedLines(_, _)
DescribedLines(metadata, lines) ==
    IF lines = <<>> THEN metadata
    ELSE LET line == Trim(Head(lines))
             slash == IndexOf(line, <<47>>)
             key == Trim(Substring(line, 0, slash))
             value == Trim(SubstringFrom(line, slash + 1))
         IN  IF line = <<>> \/ slash = -1 \/ key = <<>>
             THEN DescribedLines(metadata, Tail(lines))
             ELSE DescribedLines(SetKey(metadata, key, value), Tail(lines))

\* C17: parseMetadata returns the mapping built from the trimmed lines that
\* hold a '/', split at the first '/' with key and value trimmed, entries
\* with an empty key skipped and the last occurrence of a key winning; the
\* empty string is never a key, and an empty block gives an empty mapping
C17_MappingAsDescribed ==
    header.stage = "parsed" =>
        /\ header.metadata = DescribedLines(EmptyMetadata, Split(header.block, 10))
        /\ <<>> \notin DOMAIN header.metadata
        /\ header.block = <<>> => header.metadata = EmptyMetadata

\* the handling the claim describes: by the declared type and doctype alone
DescribedHandling(file) ==
    LET declares(key) == Includes(file.type, key) \/ Includes(file.doctype, key)
    IN  IF declares(IMAGE) THEN "image"
        ELSE IF declares(PLAINTEXT) THEN "text"
        ELSE IF declares(XML) \/ declares(FORM) THEN "xml"
        ELSE "raw"

\* the bytes the described handling writes for a record
DescribedBytes(file) ==
    IF DescribedHandling(file) = "text"
    THEN Utf8Encode(processTextContent(file.content))
    ELSE IF DescribedHandling(file) = "xml"
    THEN Utf8Encode(processXMLContent(file.content))
    ELSE file.content

\* C18: the normalization of a record's content is selected by its declared
\* type and doctype alone (IMAGE, PLAINTEXT, XML or FORM in either of them);
\* a record that declares none of them is written with its content bytes
\* unchanged, whatever its extension
C18_DispatchByDeclaredType ==
    (phase = "extract" /\ report # <<>>
        /\ report[Len(report)].says = "extracted") =>
        disk[report[Len(report)].path].content
            = DescribedBytes(records[report[Len(report)].record])

\* the offsets at which a run of ten printable bytes starts
PrintableRuns(content) ==
    {i \in 0..(Len(content) - 10) :
        \A j \in (i + 1)..(i + 10) : IsPrintable(content[j])}

\* the text decoded from the first run of ten printable bytes on
DescribedText(content) ==
    Trim(StripTrailingStars(Utf8Decode(
        SubSeq(content, Lowest(PrintableRuns(content)) + 1, Len(content)))))

\* C20: for a plain-text payload that holds a run of at least 10 printable
\* bytes (0x20-0x7E, tab, LF, CR), the text written is decoded from the
\* offset of the first such run and every byte before it is discarded,
\* wherever the run starts: also for a payload of exactly 10 such bytes and
\* for a run that starts within the last 10 bytes
C20_TextFromFirstRun ==
    (phase = "extract" /\ report # <<>>
        /\ report[Len(report)].says = "extracted"
        /\ Handling(records[report[Len(report)].record]) = "text"
        /\ PrintableRuns(records[report[Len(report)].record].content) # {}) =>
        disk[report[Len(report)].path].content
            = Utf8Encode(DescribedText(records[report[Len(report)].record].content))

\* C23: every path a file is written to, for any record, also one with an
\* empty filename whose name 'unknown_' + guid + extension is not sanitized,
\* lies below the output directory; the prefix test lets no path through
\* that lies in a sibling directory whose name begins with the directory's
\* name
C23_WritesStayBelowRoot ==
    \A k \in RecordLines :
        report[k].says = "extracted" =>
            IsStrictlyInside(report[k].path, absoluteOutputDir)

=============================================================================
